---- MODULE Spec2Model ----
(***************************************************************************)
(* A model of the support-email pipeline: normalisation, heuristic         *)
(* analysis, reply drafting, knowledge-base retrieval (app.py, services/)  *)
(* and the SQLite record store (utils/db.py).                              *)
(*                                                                         *)
(* Python strings are modelled as sequences of chunks (a chunk is a word,  *)
(* a whitespace run or a punctuation mark), so that lower(), strip(),      *)
(* split(), substring tests and tokenisation are computed, not assumed.    *)
(* Python's None is the value None of each field's type.                   *)
(***************************************************************************)
EXTENDS Integers, Sequences, FiniteSets, TLC

\* ------------------------------------------------------------------ bounds
MaxBatch == 2
MaxRows == 3
MaxRuns == 2
MaxTopK == 3

\* ------------------------------------------------------- Python strings
\* None, as a value of string type: a chunk no text contains.
None == <<"<None>">>

Truthy(s) == s # None /\ s # <<>>

\* str(x) as an f-string renders it
Str(s) == IF s = None THEN <<"None">> ELSE s

\* x or d
Or(s, d) == IF Truthy(s) THEN s ELSE d

WhiteSpace == {" ", "\n"}
Punct == {".", "!", "?", "<", ">", ",", ":", "{", "}", "[", "]"}
IsWordChunk(c) == c \notin WhiteSpace /\ c \notin Punct

\* str.lower(), chunk by chunk
LowerChunk(c) ==
    CASE c = "Outage" -> "outage"
      [] c = "URGENT" -> "urgent"
      [] c = "Thanks" -> "thanks"
      [] c = "Great" -> "great"
      [] c = "Please" -> "please"
      [] c = "A" -> "a"
      [] c = "B" -> "b"
      [] OTHER -> c

RECURSIVE Lower(_)
Lower(s) == IF s = <<>> THEN <<>> ELSE <<LowerChunk(Head(s))>> \o Lower(Tail(s))

RECURSIVE LStrip(_)
LStrip(s) == IF s # <<>> /\ Head(s) \in WhiteSpace THEN LStrip(Tail(s)) ELSE s

RECURSIVE RStrip(_)
RStrip(s) ==
    IF s # <<>> /\ s[Len(s)] \in WhiteSpace THEN RStrip(SubSeq(s, 1, Len(s) - 1)) ELSE s

\* str.strip()
Strip(s) == RStrip(LStrip(s))

\* w in s, for strings
Contains(s, w) == \E i \in 1..(Len(s) - Len(w) + 1) : SubSeq(s, i, i + Len(w) - 1) = w

\* s.split(sep)[0]
RECURSIVE SplitHead(_, _)
SplitHead(s, sep) ==
    IF s = <<>> \/ Head(s) = sep THEN <<>> ELSE <<Head(s)>> \o SplitHead(Tail(s), sep)

\* sep.join(parts)
RECURSIVE Join(_, _)
Join(sep, parts) ==
    IF parts = <<>> THEN <<>>
    ELSE IF Len(parts) = 1 THEN parts[1]
    ELSE parts[1] \o sep \o Join(sep, Tail(parts))

\* seq[:n]
Take(seq, n) == SubSeq(seq, 1, IF n < Len(seq) THEN n ELSE Len(seq))

SeqRange(seq) == {seq[i] : i \in 1..Len(seq)}

\* [x for x in seq if x in keep]
RECURSIVE Filter(_, _)
Filter(seq, keep) ==
    IF seq = <<>> THEN <<>>
    ELSE (IF Head(seq) \in keep THEN <<Head(seq)>> ELSE <<>>) \o Filter(Tail(seq), keep)

\* ------------------------------------------------------------ sorting
\* tuple comparison of integer keys, as Python compares tuples and SQL compares
\* ORDER BY terms left to right
RECURSIVE LexLess(_, _)
LexLess(a, b) ==
    IF a = <<>> \/ b = <<>> THEN FALSE
    ELSE IF Head(a) # Head(b) THEN Head(a) < Head(b)
    ELSE LexLess(Tail(a), Tail(b))

\* x placed after every element whose key is not greater than x's
RECURSIVE InsertByKey(_, _)
InsertByKey(x, sorted) ==
    IF sorted = <<>> THEN <<x>>
    ELSE IF LexLess(x.key, Head(sorted).key) THEN <<x>> \o sorted
    ELSE <<Head(sorted)>> \o InsertByKey(x, Tail(sorted))

\* a stable ascending sort of [key, val] pairs (list.sort is stable; SQLite's sorter
\* returns rows of equal keys in scan order)
RECURSIVE StableSort(_)
StableSort(pairs) ==
    IF pairs = <<>> THEN <<>>
    ELSE InsertByKey(pairs[Len(pairs)], StableSort(SubSeq(pairs, 1, Len(pairs) - 1)))

RECURSIVE Vals(_)
Vals(pairs) == IF pairs = <<>> THEN <<>> ELSE <<Head(pairs).val>> \o Vals(Tail(pairs))

\* ------------------------------------------------------ received_at values
\* A received_at string: the ISO-8601 text of the instant sec + frac/10 seconds after
\* the epoch (fmt "iso"), a text in no ISO format such as an RFC 2822 Date header
\* (fmt "other"), or None (fmt "none").
Iso(sec, frac) == [fmt |-> "iso", sec |-> sec, frac |-> frac]
BadTime == [fmt |-> "other", sec |-> 0, frac |-> 0]
NoTime == [fmt |-> "none", sec |-> 0, frac |-> 0]

\* datetime.fromisoformat(s).timestamp(), in tenths of a second; raises on a text
\* that is not ISO and on None
FromIsoOk(t) == t.fmt = "iso"
Timestamp(t) == t.sec * 10 + t.frac

\* SQLite datetime(x): 'YYYY-MM-DD HH:MM:SS' (the fraction is dropped), NULL when x
\* is not a time string
SqlDatetimeIsNull(t) == t.fmt # "iso"
SqlDatetime(t) == t.sec

\* --------------------------------------------------------- record store
Urgent == <<"Urgent">>
NotUrgent == <<"Not", " ", "urgent">>
Pending == <<"pending">>
Resolved == <<"resolved">>

\* the named parameters of the INSERT statement
Params ==
    {"message_id", "sender", "subject", "body", "received_at", "priority", "sentiment",
     "requirements", "contacts", "draft_reply", "status"}

\* a dict that supplies every named parameter can be bound; otherwise sqlite3 raises
Bindable(e) == Params \subseteq DOMAIN e

\* the row a conflict-free INSERT appends. A table is the sequence of its rows in
\* rowid order; the id column itself (INTEGER PRIMARY KEY AUTOINCREMENT, never
\* written by the statement and never updated) is left out of the rows.
NewRow(table, e) ==
    [message_id |-> e.message_id, sender |-> e.sender,
     subject |-> e.subject, body |-> e.body, received_at |-> e.received_at,
     priority |-> e.priority, sentiment |-> e.sentiment,
     requirements |-> e.requirements, contacts |-> e.contacts,
     draft_reply |-> e.draft_reply, status |-> e.status]

\* variant: an UPDATE SET list that leaves status out
UpdateRowNoStatus(row, e) ==
    [row EXCEPT !.sender = e.sender, !.subject = e.subject, !.body = e.body,
                !.received_at = e.received_at, !.priority = e.priority,
                !.sentiment = e.sentiment, !.requirements = e.requirements,
                !.contacts = e.contacts, !.draft_reply = e.draft_reply]

\* ON CONFLICT(message_id) DO UPDATE SET sender=excluded.sender, ..., status=excluded.status
UpdateRow(row, e) ==
    [row EXCEPT !.sender = e.sender, !.subject = e.subject, !.body = e.body,
                !.received_at = e.received_at, !.priority = e.priority,
                !.sentiment = e.sentiment, !.requirements = e.requirements,
                !.contacts = e.contacts, !.draft_reply = e.draft_reply,
                !.status = e.status]

\* variant: a message_id column without the UNIQUE constraint: nothing conflicts
NoConflict(row, e) == FALSE

\* message_id TEXT UNIQUE: a row conflicts with a new one when their message_id are
\* equal and not NULL (NULLs are distinct from each other in a UNIQUE column)
Conflict(row, e) == e.message_id # None /\ row.message_id = e.message_id

RECURSIVE UpdateConflicting(_, _)
UpdateConflicting(table, e) ==
    IF table = <<>> THEN <<>>
    ELSE <<IF Conflict(Head(table), e) THEN UpdateRow(Head(table), e) ELSE Head(table)>>
         \o UpdateConflicting(Tail(table), e)

\* one execution of the INSERT ... ON CONFLICT statement
UpsertRow(table, e) ==
    IF \E i \in 1..Len(table) : Conflict(table[i], e)
    THEN UpdateConflicting(table, e)
    ELSE Append(table, NewRow(table, e))

\* cur.executemany(sql, emails) to its end
RECURSIVE ExecuteMany(_, _)
ExecuteMany(table, emails) ==
    IF emails = <<>> THEN table
    ELSE ExecuteMany(UpsertRow(table, Head(emails)), Tail(emails))

\* ORDER BY CASE WHEN priority='Urgent' THEN 0 ELSE 1 END, datetime(received_at) DESC
\* (NULL is the smallest value, so it comes last in a DESC order)
PriorityCase(row) == IF row.priority = Urgent THEN 0 ELSE 1

DatetimeDescKey(row) ==
    IF SqlDatetimeIsNull(row.received_at) THEN <<1, 0>>
    ELSE <<0, 0 - SqlDatetime(row.received_at)>>

OrderKey(row, order_by_priority) ==
    (IF order_by_priority THEN <<PriorityCase(row)>> ELSE <<0>>) \o DatetimeDescKey(row)

\* LIMIT ? (a negative limit is no limit)
Limit(rows, limit) == IF limit < 0 THEN rows ELSE Take(rows, limit)

RECURSIVE OrderKeyed(_, _)
OrderKeyed(table, order_by_priority) ==
    IF table = <<>> THEN <<>>
    ELSE <<[key |-> OrderKey(Head(table), order_by_priority), val |-> Head(table)]>>
         \o OrderKeyed(Tail(table), order_by_priority)

\* fetch_emails(order_by_priority, limit), on the committed table. Rows whose ORDER BY
\* keys are equal come out in rowid order, as SQLite's sorter returns them.
FetchEmails(table, order_by_priority, limit) ==
    Limit(Vals(StableSort(OrderKeyed(table, order_by_priority))), limit)

\* ------------------------------------------------ concurrent store calls
\* Two connections at a time (two requests, or two processes) work on emails.db.
Procs == {1, 2}

VARIABLES
    db,         \* the committed table emails
    lock,       \* the connection holding the RESERVED (write) lock, 0 when none
    pending,    \* the lock holder's commit failed and it still holds the PENDING lock
    readers,    \* the connections holding a SHARED lock (a SELECT in progress)
    pc,         \* where each connection's call stands
    batch,      \* upsert_emails: the emails argument
    idx,        \* upsert_emails: the next element executemany binds
    tx,         \* upsert_emails: the table as the connection's open transaction sees it
    fetched     \* the rows the last fetch_emails returned

storeVars == <<db, lock, pending, readers, pc, batch, idx, tx, fetched>>

\* the records callers submit in the store specification: two versions of a record
\* under one message_id, differing in every other field, a record whose message_id
\* is None, and a dict that cannot be bound

Rec(m, v) ==
    [message_id |-> m,
     sender |-> IF v = 1 THEN <<"Ann">> ELSE <<"Bob">>,
     subject |-> IF v = 1 THEN <<"Outage">> ELSE <<"Thanks">>,
     body |-> IF v = 1 THEN <<"site", " ", "down">> ELSE <<"great">>,
     received_at |-> IF v = 1 THEN Iso(1, 0) ELSE Iso(1, 5),
     priority |-> IF v = 1 THEN Urgent ELSE NotUrgent,
     sentiment |-> IF v = 1 THEN <<"Negative">> ELSE <<"Positive">>,
     requirements |-> IF v = 1 THEN <<"fix">> ELSE <<>>,
     contacts |-> IF v = 1 THEN <<"Emails", ":", " ", "a@b.com">> ELSE <<>>,
     draft_reply |-> IF v = 1 THEN <<"Hi", " ", "Ann">> ELSE <<"Hi", " ", "Bob">>,
     status |-> IF v = 1 THEN Pending ELSE Resolved]

\* a dict without the key status: executemany cannot bind it
NoStatus == [message_id |-> <<"m2">>, sender |-> <<"Ann">>]

StoreRecords == {Rec(<<"m1">>, 1), Rec(<<"m1">>, 2), Rec(None, 1), NoStatus}

RECURSIVE SeqsUpTo(_, _)
SeqsUpTo(S, n) ==
    IF n = 0 THEN {<<>>}
    ELSE LET shorter == SeqsUpTo(S, n - 1)
         IN shorter \cup {Append(q, x) : q \in {r \in shorter : Len(r) = n - 1}, x \in S}

StoreBatches == SeqsUpTo(StoreRecords, MaxBatch)

Limits == {0 - 1, 0, 1, 200}

AllBindable(emails) == \A i \in 1..Len(emails) : Bindable(emails[i])

InitStore ==
    /\ db = <<>>
    /\ lock = 0
    /\ pending = FALSE
    /\ readers = {}
    /\ pc = [p \in Procs |-> "idle"]
    /\ batch = [p \in Procs |-> <<>>]
    /\ idx = [p \in Procs |-> 1]
    /\ tx = [p \in Procs |-> <<>>]
    /\ fetched = <<>>

\* variant: a connection in autocommit mode: every statement is its own transaction
CommitEach(i, n) == TRUE

\* conn.commit() follows executemany: the transaction ends after the last element
CommitPoint(i, n) == i = n

\* upsert_emails(emails) up to the connection: an empty list returns at once
UpsertCall(p, emails) ==
    /\ pc[p] = "idle"
    /\ Len(db) + Len(emails) <= MaxRows
    /\ IF emails = <<>>
       THEN UNCHANGED <<pc, batch, idx>>
       ELSE /\ pc' = [pc EXCEPT ![p] = "exec"]
            /\ batch' = [batch EXCEPT ![p] = emails]
            /\ idx' = [idx EXCEPT ![p] = 1]
    /\ UNCHANGED <<db, lock, pending, readers, tx, fetched>>

\* executemany binds and runs the statement for the next element. The first write of
\* a transaction takes the RESERVED lock and sees the committed table; when another
\* connection holds the lock the busy timeout ends in "database is locked". A dict
\* that lacks a named parameter raises. An exception leaves the function with the
\* transaction open.
ExecStep(p) ==
    /\ pc[p] = "exec"
    /\ LET e == batch[p][idx[p]]
           n == Len(batch[p])
       IN IF ~Bindable(e) \/ (lock # p /\ lock # 0)
          THEN /\ pc' = [pc EXCEPT ![p] = "failed"]
               /\ UNCHANGED <<lock, tx, idx>>
          ELSE /\ lock' = p
               /\ tx' = [tx EXCEPT ![p] = UpsertRow(IF lock = p THEN tx[p] ELSE db, e)]
               /\ idx' = [idx EXCEPT ![p] = idx[p] + 1]
               /\ pc' = [pc EXCEPT ![p] = IF CommitPoint(idx[p], n) THEN "commit" ELSE "exec"]
    /\ UNCHANGED <<db, pending, readers, batch, fetched>>

\* conn.commit() with no reader in the way: the transaction becomes the committed
\* table in one step, the lock is released, conn.close()
Commit(p) ==
    /\ pc[p] = "commit"
    /\ readers = {}
    /\ db' = tx[p]
    /\ lock' = 0
    /\ tx' = [tx EXCEPT ![p] = <<>>]
    /\ IF idx[p] > Len(batch[p])
       THEN /\ pc' = [pc EXCEPT ![p] = "idle"]
            /\ batch' = [batch EXCEPT ![p] = <<>>]
            /\ idx' = [idx EXCEPT ![p] = 1]
       ELSE /\ pc' = [pc EXCEPT ![p] = "exec"]
            /\ UNCHANGED <<batch, idx>>
    /\ UNCHANGED <<pending, readers, fetched>>

\* conn.commit() while a SELECT holds its SHARED lock past the busy timeout:
\* "database is locked"; the connection keeps the PENDING lock and its transaction
CommitBusy(p) ==
    /\ pc[p] = "commit"
    /\ readers # {}
    /\ pc' = [pc EXCEPT ![p] = "failed"]
    /\ pending' = TRUE
    /\ UNCHANGED <<db, lock, readers, batch, idx, tx, fetched>>

\* the exception has left upsert_emails: the connection object is finalised, which
\* rolls its open transaction back and releases its locks
CloseFailed(p) ==
    /\ pc[p] = "failed"
    /\ pc' = [pc EXCEPT ![p] = "idle"]
    /\ lock' = IF lock = p THEN 0 ELSE lock
    /\ pending' = IF lock = p THEN FALSE ELSE pending
    /\ tx' = [tx EXCEPT ![p] = <<>>]
    /\ batch' = [batch EXCEPT ![p] = <<>>]
    /\ idx' = [idx EXCEPT ![p] = 1]
    /\ UNCHANGED <<db, readers, fetched>>

\* fetch_emails: cur.execute takes a SHARED lock, unless a writer holds PENDING
\* ("database is locked" is raised to the caller, nothing changes)
FetchStart(p) ==
    /\ pc[p] = "idle"
    /\ IF pending
       THEN UNCHANGED <<pc, readers>>
       ELSE /\ pc' = [pc EXCEPT ![p] = "read"]
            /\ readers' = readers \cup {p}
    /\ UNCHANGED <<db, lock, pending, batch, idx, tx, fetched>>

\* what fetch_emails() returns to a connection whose SELECT is running (the
\* dashboard's call: order_by_priority=True, limit=200)
Visible == FetchEmails(db, TRUE, 200)

\* fetch_emails: fetchall() returns Visible, conn.close() releases the SHARED lock
FetchEnd(p) ==
    /\ pc[p] = "read"
    /\ readers' = readers \ {p}
    /\ pc' = [pc EXCEPT ![p] = "idle"]
    /\ UNCHANGED <<db, lock, pending, batch, idx, tx, fetched>>

\* CREATE TABLE IF NOT EXISTS / CREATE INDEX IF NOT EXISTS on the existing table
CreateIfNotExists(table) == table

\* init_db() on a database that app.py's import-time init_db() has created
InitDb(p) ==
    /\ pc[p] = "idle"
    /\ lock = 0
    /\ db' = CreateIfNotExists(db)
    /\ UNCHANGED <<lock, pending, readers, pc, batch, idx, tx, fetched>>

\* ------------------------------------------------------- nlp_service.py
POS_WORDS ==
    {<<"great">>, <<"thanks">>, <<"thank", " ", "you">>, <<"appreciate">>, <<"love">>,
     <<"awesome">>, <<"good">>}

NEG_WORDS ==
    {<<"issue">>, <<"problem">>, <<"angry">>, <<"frustrated">>, <<"not", " ", "working">>,
     <<"cannot">>, <<"error">>, <<"fail">>}

URGENT_WORDS ==
    {<<"urgent">>, <<"immediately">>, <<"asap">>, <<"critical">>,
     <<"cannot", " ", "access">>, <<"down">>, <<"outage">>, <<"blocked">>}

\* any(w in tl for w in words)
AnyIn(words, tl) == \E w \in words : Contains(tl, w)

Positive == <<"Positive">>
Negative == <<"Negative">>
Neutral == <<"Neutral">>

Sentiment(text) ==
    LET tl == Lower(Or(text, <<>>))
        pos == AnyIn(POS_WORDS, tl)
        neg == AnyIn(NEG_WORDS, tl)
    IN IF pos /\ ~neg THEN Positive
       ELSE IF neg /\ ~pos THEN Negative
       ELSE Neutral

\* _priority(text)
Priority(text) ==
    IF AnyIn(URGENT_WORDS, Lower(Or(text, <<>>))) THEN Urgent ELSE NotUrgent

\* the chunks of the model's texts that EMAIL_REGEX and PHONE_REGEX match, and their
\* lexicographic rank (sorted() compares code points: digits before letters)
EmailChunks == {"ann@x.com", "a@b.com"}
PhoneChunks == {"555-123-4567"}
ChunkRank(c) ==
    CASE c = "555-123-4567" -> 1
      [] c = "a@b.com" -> 2
      [] c = "ann@x.com" -> 3
      [] OTHER -> 4

\* sorted(set(found))
RECURSIVE Sorted(_)
Sorted(S) ==
    IF S = {} THEN <<>>
    ELSE LET m == CHOOSE x \in S : \A y \in S : ChunkRank(x) <= ChunkRank(y)
         IN <<m>> \o Sorted(S \ {m})

RECURSIVE Singletons(_)
Singletons(seq) == IF seq = <<>> THEN <<>> ELSE << <<Head(seq)>> >> \o Singletons(Tail(seq))

ExtractContacts(text) ==
    LET t == Or(text, <<>>)
        emails == SeqRange(Filter(t, EmailChunks))
        phones == SeqRange(Filter(t, PhoneChunks))
        parts ==
            (IF emails # {}
             THEN << <<"Emails", ":", " ">> \o Join(<<",", " ">>, Singletons(Take(Sorted(emails), 3))) >>
             ELSE <<>>)
            \o
            (IF phones # {}
             THEN << <<"Phones", ":", " ">> \o Join(<<",", " ">>, Singletons(Take(Sorted(phones), 3))) >>
             ELSE <<>>)
    IN Join(<<" ", "|", " ">>, parts)

\* re.split(r"(?<=[.!?])\s+", s): cut at a whitespace run that follows . ! or ?
RECURSIVE SplitSentences(_, _)
SplitSentences(s, cur) ==
    IF s = <<>> THEN <<cur>>
    ELSE IF Head(s) \in WhiteSpace /\ cur # <<>> /\ cur[Len(cur)] \in {".", "!", "?"}
    THEN <<cur>> \o SplitSentences(Tail(s), <<>>)
    ELSE SplitSentences(Tail(s), Append(cur, Head(s)))

RequirementKeys ==
    {"need", "require", "want", "request", "help", "cannot", "unable", "fix", "access",
     "please"}

RECURSIVE FilterSentences(_)
FilterSentences(sentences) ==
    IF sentences = <<>> THEN <<>>
    ELSE (IF \E k \in RequirementKeys : Contains(Lower(Head(sentences)), <<k>>)
          THEN <<Head(sentences)>> ELSE <<>>) \o FilterSentences(Tail(sentences))

ExtractRequirements(text) ==
    IF ~Truthy(text) THEN <<>>
    ELSE Join(<<" ">>, Take(FilterSentences(SplitSentences(Strip(text), <<>>)), 3))

\* d.get(k, default), for a dict as a function on its keys
Get(d, k, default) == IF k \in DOMAIN d THEN d[k] ELSE default

\* the heuristic baseline of analyze_email
Heuristic(email_obj) ==
    LET subject == Or(Get(email_obj, "subject", <<>>), <<>>)
        body == Or(Get(email_obj, "body", <<>>), <<>>)
        combined == Strip(subject \o <<"\n">> \o body)
    IN [sentiment |-> Sentiment(combined),
        priority |-> Priority(combined),
        requirements |-> ExtractRequirements(body),
        contacts |-> ExtractContacts(body)]

\* ------------------------------------------------------ the Gemini oracle
\* What the client library does on one call: it raises, or it yields the value that
\* _call_gemini hands back, which is None, a text (possibly empty), or a value that
\* is not a text (a candidate's "content" object, a non-string text attribute).
OracleRaises == [kind |-> "raises", text |-> <<>>]
OracleNone == [kind |-> "none", text |-> <<>>]
OracleText(t) == [kind |-> "text", text |-> t]
OracleObject == [kind |-> "object", text |-> <<>>]

\* _call_gemini: every exception is caught and None returned
CallGemini(outcome) == IF outcome.kind = "raises" THEN OracleNone ELSE outcome

\* bool(value)
OracleTruthy(v) == v.kind = "object" \/ (v.kind = "text" /\ v.text # <<>>)

\* ---- json.loads on a text
Quote == "\""
JsonMarks == {"{", "}", "[", "]", ":", ","}

RECURSIVE JsonLex(_)
JsonLex(s) ==
    IF s = <<>> THEN <<>>
    ELSE LET c == Head(s)
             rest == Tail(s)
         IN IF c \in WhiteSpace THEN JsonLex(rest)
            ELSE IF c = Quote
            THEN LET str == SplitHead(rest, Quote)
                 IN IF Len(str) = Len(rest) THEN <<[t |-> "bad", v |-> <<>>]>>
                    ELSE <<[t |-> "str", v |-> str]>>
                         \o JsonLex(SubSeq(rest, Len(str) + 2, Len(rest)))
            ELSE IF c \in JsonMarks THEN <<[t |-> c, v |-> <<>>]>> \o JsonLex(rest)
            ELSE IF c = "null" THEN <<[t |-> "null", v |-> <<>>]>> \o JsonLex(rest)
            ELSE <<[t |-> "bad", v |-> <<>>]>> \o JsonLex(rest)

IsJsonScalar(tok) == tok.t \in {"str", "null"}
JsonScalar(tok) == IF tok.t = "null" THEN None ELSE tok.v

\* the members of an object, between its braces: key : scalar {, key : scalar}
RECURSIVE JsonMembersOk(_)
JsonMembersOk(toks) ==
    /\ Len(toks) >= 3
    /\ toks[1].t = "str"
    /\ toks[2].t = ":"
    /\ IsJsonScalar(toks[3])
    /\ \/ Len(toks) = 3
       \/ /\ Len(toks) > 4
          /\ toks[4].t = ","
          /\ JsonMembersOk(SubSeq(toks, 5, Len(toks)))

RECURSIVE JsonMembers(_)
JsonMembers(toks) ==
    IF Len(toks) < 3 THEN <<>>
    ELSE <<[k |-> toks[1].v, v |-> JsonScalar(toks[3])]>>
         \o JsonMembers(SubSeq(toks, 5, Len(toks)))

\* json.loads(text): [ok, isdict, items]; ok is FALSE when it raises
JsonLoads(text) ==
    LET toks == JsonLex(text)
        n == Len(toks)
    IN IF n >= 2 /\ toks[1].t = "{" /\ toks[n].t = "}"
       THEN LET inner == SubSeq(toks, 2, n - 1)
            IN IF inner = <<>> THEN [ok |-> TRUE, isdict |-> TRUE, items |-> <<>>]
               ELSE IF JsonMembersOk(inner)
               THEN [ok |-> TRUE, isdict |-> TRUE, items |-> JsonMembers(inner)]
               ELSE [ok |-> FALSE, isdict |-> FALSE, items |-> <<>>]
       ELSE IF (n = 1 /\ IsJsonScalar(toks[1])) \/ (n = 2 /\ toks[1].t = "[" /\ toks[2].t = "]")
       THEN [ok |-> TRUE, isdict |-> FALSE, items |-> <<>>]
       ELSE [ok |-> FALSE, isdict |-> FALSE, items |-> <<>>]

\* parsed.get(key): the last member of that name, None when there is none
RECURSIVE DictGet(_, _)
DictGet(items, key) ==
    IF items = <<>> THEN None
    ELSE IF items[Len(items)].k = key THEN items[Len(items)].v
    ELSE DictGet(SubSeq(items, 1, Len(items) - 1), key)

\* re.search(r"\{.*\}", raw, re.S): from the first { to the last } after it; the
\* whole text when there is no match
JsonSubstring(raw) ==
    LET opens == {i \in 1..Len(raw) : raw[i] = "{"}
        closes == {i \in 1..Len(raw) : raw[i] = "}"}
    IN IF opens = {} \/ closes = {} THEN raw
       ELSE LET a == CHOOSE i \in opens : \A j \in opens : i <= j
                b == CHOOSE i \in closes : \A j \in closes : i >= j
            IN IF a < b THEN SubSeq(raw, a, b) ELSE raw

\* analyze_email(email_obj), with GEMINI_API_KEY set or not and the oracle's outcome
\* for its one call. re.search on a value that is not a text, json.loads on a text
\* that is not JSON and parsed.get on a value that is not a dict raise inside the
\* try, whose except falls through to the heuristic result.
AnalyzeEmail(email_obj, api_key, outcome) ==
    LET result == Heuristic(email_obj)
        raw == CallGemini(outcome)
    IN IF api_key /\ OracleTruthy(raw) /\ raw.kind = "text"
       THEN LET parsed == JsonLoads(JsonSubstring(raw.text))
            IN IF parsed.ok /\ parsed.isdict
               THEN [priority |-> Or(DictGet(parsed.items, <<"priority">>), result.priority),
                     sentiment |-> Or(DictGet(parsed.items, <<"sentiment">>), result.sentiment),
                     requirements |->
                         Or(DictGet(parsed.items, <<"requirements">>), result.requirements),
                     contacts |-> Or(DictGet(parsed.items, <<"contacts">>), result.contacts)]
               ELSE result
       ELSE result

\* ---------------------------------------------------- response_service.py
\* the fallback draft of generate_response, for a sender that is a string
FallbackDraft(sender, analysis) ==
    LET tone_open ==
            IF analysis.sentiment # Negative THEN <<"Thanks for reaching out", ".">>
            ELSE <<"I'm really sorry for the trouble you're facing", ".">>
        priority_line ==
            IF analysis.priority = Urgent
            THEN <<"I've marked this as urgent and escalated it to our team", ".">>
            ELSE <<"I've logged this request and our team will follow up", ".">>
        requirements == Or(analysis.requirements, <<"the details you shared">>)
        closing == <<"If you can share screenshots, please reply to this message", ".">>
    IN <<"Hi", " ">> \o Strip(SplitHead(sender, "<")) \o <<",", "\n", "\n">>
       \o tone_open \o <<" ", "Based on your message, I understand", ":", " ">>
       \o requirements \o <<".", "\n", "\n">>
       \o priority_line \o <<" ">> \o closing
       \o <<"\n", "\n", "Best regards", ",", "\n", "Support Team">>

Returned(v) == [raised |-> FALSE, val |-> v]
Raised == [raised |-> TRUE, val |-> <<>>]

\* return out.strip(): AttributeError when out is not a text
StripOracle(out) == IF out.kind = "text" THEN Returned(Strip(out.text)) ELSE Raised

\* generate_response(email_obj, analysis). The KB excerpts go into the prompt only,
\* and the oracle's outcome is not a function of the prompt.
GenerateResponse(email_obj, analysis, api_key, outcome) ==
    LET sender == Get(email_obj, "sender", <<"Customer">>)
        out == CallGemini(outcome)
    IN IF api_key /\ OracleTruthy(out) THEN StripOracle(out)
       ELSE IF sender = None THEN Raised
       ELSE Returned(FallbackDraft(sender, analysis))

\* ------------------------------------------ response_service.py: retrieval
VARIABLES
    kb,         \* the knowledge_base directory: whether it exists, and its files in the
                \* order the directory enumerates them
    call,       \* the last call of a service function: its name and arguments
    ret         \* what that call returned

fnVars == <<kb, call, ret>>

\* re.findall(r"\w+", s): the maximal runs of word chunks, each run one token
RECURSIVE FindWords(_, _)
FindWords(s, cur) ==
    IF s = <<>> THEN (IF cur = <<>> THEN <<>> ELSE <<cur>>)
    ELSE IF IsWordChunk(Head(s)) THEN FindWords(Tail(s), Append(cur, Head(s)))
    ELSE (IF cur = <<>> THEN <<>> ELSE <<cur>>) \o FindWords(Tail(s), <<>>)

\* _tokenize(text)
Tokenize(text) == FindWords(Lower(Or(text, <<>>)), <<>>)

\* path.name matches *.txt
IsTxt(name) == Len(name) >= 2 /\ SubSeq(name, Len(name) - 1, Len(name)) = <<".", "txt">>

\* the loop over KB_DIR.glob("*.txt"): a file that cannot be read is skipped, a
\* document that shares no token with the email is left out
RECURSIVE Candidates(_, _)
Candidates(files, email_tokens) ==
    IF files = <<>> THEN <<>>
    ELSE LET f == Head(files)
             score == Cardinality(email_tokens \cap SeqRange(Tokenize(f.text)))
         IN (IF IsTxt(f.name) /\ f.readable /\ score > 0
             THEN <<[key |-> <<0 - score>>,
                     val |-> [score |-> score, text |-> f.text, source |-> f.name]]>>
             ELSE <<>>) \o Candidates(Tail(files), email_tokens)

\* variant: ascending sort followed by reverse(): equal scores come out reversed
RECURSIVE Reverse(_)
Reverse(seq) == IF seq = <<>> THEN <<>> ELSE Reverse(Tail(seq)) \o <<Head(seq)>>

RECURSIVE NegateKeys(_)
NegateKeys(pairs) ==
    IF pairs = <<>> THEN <<>>
    ELSE <<[key |-> <<0 - Head(pairs).key[1]>>, val |-> Head(pairs).val]>>
         \o NegateKeys(Tail(pairs))

SortThenReverse(candidates) == Reverse(StableSort(NegateKeys(candidates)))

\* candidates.sort(key=lambda x: x[0], reverse=True): descending by score, equal
\* scores in their original order
SortByScoreDesc(candidates) == StableSort(candidates)

\* retrieve_relevant_kb(email_body, top_k), for top_k >= 0
RetrieveRelevantKb(dir, email_body, top_k) ==
    LET email_tokens == SeqRange(Tokenize(email_body))
    IN IF email_tokens = {} \/ ~dir.exists THEN <<>>
       ELSE Take(Vals(SortByScoreDesc(Candidates(dir.files, email_tokens))), top_k)

\* the files the model's directories are made of
File(name, text, readable) == [name |-> name, text |-> text, readable |-> readable]

KbFiles ==
    {File(<<"faq", ".", "txt">>, <<"A", " ", "b">>, TRUE),
     File(<<"billing", ".", "txt">>, <<"b", ".", "a", " ", "a", "b">>, TRUE),
     File(<<"login", ".", "txt">>, <<"A", "B", " ", "a">>, TRUE),
     File(<<"locked", ".", "txt">>, <<"a", " ", "b">>, FALSE),
     File(<<"notes", ".", "md">>, <<"a", " ", "b">>, TRUE)}

MaxFiles == 3

\* the sequences of at most n distinct elements of S
Enumerations(S, n) ==
    {q \in SeqsUpTo(S, n) : \A i, j \in 1..Len(q) : i # j => q[i] # q[j]}

KbDirs ==
    {[exists |-> FALSE, files |-> <<>>]}
    \cup {[exists |-> TRUE, files |-> fs] : fs \in Enumerations(KbFiles, MaxFiles)}

\* the email bodies the retrieval is asked about
Bodies ==
    {None, <<>>, <<" ", ".">>, <<"a">>, <<"B">>, <<"a", "B">>, <<"a", " ", "B">>,
     <<"B", ".", "a", " ", "a", "B", " ", "a">>}

NoCall == [fn |-> "none"]
NoRet == <<>>

\* a call of retrieve_relevant_kb
Retrieve(email_body, top_k) ==
    /\ call' = [fn |-> "retrieve_relevant_kb", email_body |-> email_body, top_k |-> top_k]
    /\ ret' = RetrieveRelevantKb(kb, email_body, top_k)
    /\ UNCHANGED kb

\* the knowledge base is edited between calls: the directory is created or removed,
\* a file is added at the end of the enumeration or the last one is deleted
EditKb(dir) ==
    /\ \/ dir.exists # kb.exists /\ dir.files = <<>> /\ kb.files = <<>>
       \/ /\ dir.exists /\ kb.exists
          /\ \E f \in KbFiles : dir.files = Append(kb.files, f) \/ kb.files = Append(dir.files, f)
    /\ kb' = dir
    /\ call' = NoCall
    /\ ret' = NoRet

\* ------------------------------------------------------------- app.py
VARIABLES
    seed,       \* the process's string-hash seed (PYTHONHASHSEED, random by default)
    api_key,    \* GEMINI_API_KEY is set
    clock,      \* ticks of the wall clock since the model's start
    runs,       \* dashboard requests served so far
    last        \* the last request: its raw emails, what the oracle did, the
                \* message_id given to each email, the batch handed to upsert_emails,
                \* whether the request raised

appVars == <<seed, api_key, clock, runs, last>>

MaxClock == 1
MaxSeeds == 2
Seeds == 1..MaxSeeds

\* datetime.utcnow().isoformat(): half a second passes per tick
UtcNow == Iso(2 + (clock \div 2), 5 * (clock % 2))

Absent == <<"<absent>">>
AbsentTime == [fmt |-> "absent", sec |-> 0, frac |-> 0]

\* a raw email dict: a key whose value is Absent is not in the dict
MkRaw(message_id, sender, subject, body, received_at) ==
    LET all ==
            [message_id |-> message_id, sender |-> sender, subject |-> subject,
             body |-> body, received_at |-> received_at]
        keys ==
            {k \in DOMAIN all :
                IF k = "received_at" THEN all[k] # AbsentTime ELSE all[k] # Absent}
    IN [k \in keys |-> all[k]]

Ann == <<"Ann", " ", "<", "ann@x.com", ">">>
Bob == <<"Bob">>
HelpBody == <<"Please", " ", "fix", ".", " ", "Reach", " ", "a@b.com">>
ThanksBody == <<"great">>

\* the raw emails the mail source hands over in the model
\*   a complete record; a second one received later within the same second; one
\*   whose received_at is an RFC 2822 date; one received before the epoch; one with
\*   null sender, body and received_at; one as email_service builds them, with
\*   neither message_id nor received_at
RawEmails ==
    {MkRaw(<<"m1">>, Ann, <<"Outage">>, HelpBody, Iso(1, 0)),
     MkRaw(<<"m2">>, Bob, <<"Outage">>, HelpBody, Iso(1, 5)),
     MkRaw(<<"m3">>, Ann, <<"Outage">>, HelpBody, BadTime),
     MkRaw(<<"m2">>, Bob, <<"Outage">>, HelpBody, Iso(0 - 1, 0)),
     MkRaw(<<"m1">>, None, <<"Outage">>, None, NoTime),
     MkRaw(Absent, Bob, <<"Thanks">>, ThanksBody, AbsentTime)}

RawBatches == SeqsUpTo(RawEmails, MaxBatch)

JsonUrgent == <<"{", Quote, "priority", Quote, ":", " ", Quote, "Urgent", Quote, "}">>

\* what the oracle does during one request
RunOutcomes == {OracleRaises, OracleText(JsonUrgent), OracleObject}

\* hash(s) as it appears in the derived id: hash("") is 0 under every seed, the
\* hash of another string depends on the process's seed; distinct strings are taken
\* not to collide
HashStr(s, hash_seed) ==
    IF s = <<>> THEN <<"0">>
    ELSE IF s = None THEN <<"#", "None", "#">>
    ELSE <<"#", ToString(hash_seed), ":">> \o s \o <<"#">>

\* x or default, for a received_at value
TimeOr(t, default) == IF t.fmt \in {"iso", "other"} THEN t ELSE default

\* e_norm of ingest_latest
Normalize(e, hash_seed, utcnow) ==
    [message_id |->
        Or(Get(e, "message_id", None),
           Str(Get(e, "sender", None)) \o <<"_">> \o Str(Get(e, "subject", None))
               \o <<"_">> \o HashStr(Get(e, "body", <<>>), hash_seed)),
     sender |-> Get(e, "sender", <<>>),
     subject |-> Or(Get(e, "subject", <<>>), <<>>),
     body |-> Or(Get(e, "body", <<>>), <<>>),
     received_at |-> TimeOr(Get(e, "received_at", NoTime), utcnow)]

\* the loop body of ingest_latest for one raw email: the record, unless
\* generate_response raises
ProcessOne(e, hash_seed, utcnow, key, outcome) ==
    LET e_norm == Normalize(e, hash_seed, utcnow)
        analysis == AnalyzeEmail(e_norm, key, outcome)
        draft == GenerateResponse(e_norm, analysis, key, outcome)
    IN [raised |-> draft.raised,
        rec |-> [message_id |-> e_norm.message_id, sender |-> e_norm.sender,
                 subject |-> e_norm.subject, body |-> e_norm.body,
                 received_at |-> e_norm.received_at,
                 priority |-> analysis.priority, sentiment |-> analysis.sentiment,
                 requirements |-> analysis.requirements, contacts |-> analysis.contacts,
                 draft_reply |-> draft.val, status |-> Pending]]

\* ts_key of sort_key: -ts.timestamp(), 0 when fromisoformat raises
TsKey(r) == IF FromIsoOk(r.received_at) THEN 0 - Timestamp(r.received_at) ELSE 0

\* sort_key(r)
SortKey(r) == <<IF r.priority = Urgent THEN 0 ELSE 1, TsKey(r)>>

RECURSIVE SortKeyed(_)
SortKeyed(processed) ==
    IF processed = <<>> THEN <<>>
    ELSE <<[key |-> SortKey(Head(processed)), val |-> Head(processed)]>>
         \o SortKeyed(Tail(processed))

\* processed.sort(key=sort_key)
SortProcessed(processed) == Vals(StableSort(SortKeyed(processed)))

\* upsert_emails(emails) on the only connection at work: every element binds, the
\* commit succeeds
UpsertEmails(table, emails) == IF emails = <<>> THEN table ELSE ExecuteMany(table, emails)

\* the for loop of ingest_latest
RECURSIVE ProcessAll(_, _, _, _, _)
ProcessAll(raw_emails, hash_seed, utcnow, key, outcome) ==
    IF raw_emails = <<>> THEN <<>>
    ELSE <<ProcessOne(Head(raw_emails), hash_seed, utcnow, key, outcome)>>
         \o ProcessAll(Tail(raw_emails), hash_seed, utcnow, key, outcome)

RECURSIVE Recs(_)
Recs(done) == IF done = <<>> THEN <<>> ELSE <<Head(done).rec>> \o Recs(Tail(done))

RECURSIVE Ids(_)
Ids(done) == IF done = <<>> THEN <<>> ELSE <<Head(done).rec.message_id>> \o Ids(Tail(done))

InitApp ==
    /\ seed \in Seeds
    /\ api_key \in BOOLEAN
    /\ clock = 0
    /\ runs = 0
    /\ last = [raw |-> <<>>, outcome |-> OracleNone, ids |-> <<>>, batch |-> <<>>,
               raised |-> FALSE]

\* dashboard(): ingest_latest() on what fetch_support_emails returned, then
\* fetch_emails(order_by_priority=True). An exception of generate_response leaves
\* the request before anything is written or fetched.
Dashboard(raw_emails, outcome) ==
    /\ runs < MaxRuns
    /\ \E done \in {ProcessAll(raw_emails, seed, UtcNow, api_key, outcome)} :
         \E sorted \in {SortProcessed(Recs(done))} :
            LET failed == \E i \in 1..Len(done) : done[i].raised
            IN /\ runs' = runs + 1
               /\ last' = [raw |-> raw_emails,
                           outcome |-> outcome,
                           ids |-> Ids(done),
                           batch |-> IF failed THEN <<>> ELSE sorted,
                           raised |-> failed]
               /\ db' = IF failed THEN db ELSE UpsertEmails(db, sorted)
               /\ fetched' = IF failed THEN fetched ELSE FetchEmails(db', TRUE, 200)
    /\ UNCHANGED <<seed, api_key, clock, lock, pending, readers, pc, batch, idx, tx, fnVars>>

\* time passes
Tick ==
    /\ clock < MaxClock
    /\ clock' = clock + 1
    /\ UNCHANGED <<seed, api_key, runs, last, storeVars, fnVars>>

\* the server process is restarted: a new hash seed, the database file stays
Restart ==
    /\ \E s \in Seeds \ {seed} : seed' = s
    /\ UNCHANGED <<api_key, clock, runs, last, storeVars, fnVars>>

\* ------------------------------------------------- calls of the services
\* what the oracle can do on a call of analyze_email or generate_response
JsonList == <<"[", "]">>
JsonCut == <<"{", Quote, "priority", Quote, ":">>
Prose == <<"Sorry", ",", " ", "I cannot help", ".">>
JsonHigh ==
    <<"{", Quote, "priority", Quote, ":", " ", Quote, "High", Quote, ",", " ",
      Quote, "sentiment", Quote, ":", " ", Quote, "Mixed", Quote, "}">>
JsonNull ==
    <<"{", Quote, "priority", Quote, ":", " ", "null", ",", " ",
      Quote, "sentiment", Quote, ":", " ", Quote, Quote, "}">>

Outcomes ==
    {OracleRaises, OracleNone, OracleObject, OracleText(<<>>), OracleText(<<" ">>),
     OracleText(Prose), OracleText(JsonList), OracleText(JsonCut), OracleText(JsonUrgent),
     OracleText(JsonHigh), OracleText(JsonNull)}

\* the e_norm dicts ingest_latest hands to the two services
NormEmails == {Normalize(e, 1, Iso(2, 0)) : e \in RawEmails}

\* a call of analyze_email
Analyze(email_obj, outcome) ==
    /\ call = NoCall
    /\ call' = [fn |-> "analyze_email", email_obj |-> email_obj, outcome |-> outcome]
    /\ ret' = Returned(AnalyzeEmail(email_obj, api_key, outcome))
    /\ UNCHANGED kb

\* a call of generate_response, with an analysis analyze_email returned for the email
Draft(email_obj, analysis, outcome) ==
    /\ call = NoCall
    /\ call' = [fn |-> "generate_response", email_obj |-> email_obj,
                analysis |-> analysis, outcome |-> outcome]
    /\ ret' = GenerateResponse(email_obj, analysis, api_key, outcome)
    /\ UNCHANGED kb

\* ------------------------------------------------------- specifications
vars == <<storeVars, appVars, fnVars>>

\* the application idle: one process, no key, nothing ingested
IdleApp ==
    /\ seed = 1
    /\ api_key = FALSE
    /\ clock = 0
    /\ runs = 0
    /\ last = [raw |-> <<>>, outcome |-> OracleNone, ids |-> <<>>, batch |-> <<>>,
               raised |-> FALSE]

\* no knowledge base, no service call yet
IdleFn ==
    /\ kb = [exists |-> FALSE, files |-> <<>>]
    /\ call = NoCall
    /\ ret = NoRet

\* the dashboard served by one single-threaded process, restarted at will
Init == InitStore /\ InitApp /\ IdleFn

Next ==
    \/ \E raw_emails \in RawBatches :
         \E outcome \in (IF api_key THEN RunOutcomes ELSE {OracleNone}) :
            Dashboard(raw_emails, outcome)
    \/ Tick
    \/ Restart

Spec == Init /\ [][Next]_vars

\* utils/db.py called from concurrent connections
InitStoreSpec == InitStore /\ IdleApp /\ IdleFn

NextStore ==
    \/ \E p \in Procs, emails \in StoreBatches :
         UpsertCall(p, emails) /\ UNCHANGED <<appVars, fnVars>>
    \/ \E p \in Procs : ExecStep(p) /\ UNCHANGED <<appVars, fnVars>>
    \/ \E p \in Procs : Commit(p) /\ UNCHANGED <<appVars, fnVars>>
    \/ \E p \in Procs : CommitBusy(p) /\ UNCHANGED <<appVars, fnVars>>
    \/ \E p \in Procs : CloseFailed(p) /\ UNCHANGED <<appVars, fnVars>>
    \/ \E p \in Procs : FetchStart(p) /\ UNCHANGED <<appVars, fnVars>>
    \/ \E p \in Procs : FetchEnd(p) /\ UNCHANGED <<appVars, fnVars>>
    \/ \E p \in Procs : InitDb(p) /\ UNCHANGED <<appVars, fnVars>>

SpecStore == InitStoreSpec /\ [][NextStore]_vars

\* retrieve_relevant_kb over the knowledge bases and bodies of the model
InitKB == InitStore /\ IdleApp /\ IdleFn

NextKB ==
    \/ \E email_body \in Bodies, top_k \in 0..MaxTopK :
         Retrieve(email_body, top_k) /\ UNCHANGED <<storeVars, appVars>>
    \/ \E dir \in KbDirs : EditKb(dir) /\ UNCHANGED <<storeVars, appVars>>

SpecKB == InitKB /\ [][NextKB]_vars

\* analyze_email and generate_response under every outcome of the oracle
InitOracle ==
    /\ InitStore
    /\ IdleFn
    /\ seed = 1
    /\ api_key \in BOOLEAN
    /\ clock = 0
    /\ runs = 0
    /\ last = [raw |-> <<>>, outcome |-> OracleNone, ids |-> <<>>, batch |-> <<>>,
               raised |-> FALSE]

NextOracle ==
    \/ \E email_obj \in NormEmails, outcome \in Outcomes :
         Analyze(email_obj, outcome) /\ UNCHANGED <<storeVars, appVars>>
    \/ \E email_obj \in NormEmails, o \in Outcomes, outcome \in Outcomes :
         Draft(email_obj, AnalyzeEmail(email_obj, api_key, o), outcome)
         /\ UNCHANGED <<storeVars, appVars>>

SpecOracle == InitOracle /\ [][NextOracle]_vars

\* ------------------------------------------------------- record store properties
\* the tables a connection can read: the committed one, and its own transaction
Tables == {db} \cup {tx[p] : p \in {q \in Procs : lock = q}}

RowsOf(table, m) == {i \in 1..Len(table) : table[i].message_id = m}

\* the message identifiers of a batch (None is the absence of an identifier)
BatchIds(emails) == {emails[i].message_id : i \in 1..Len(emails)} \ {None}

\* the last record of a batch under an identifier
LastOf(emails, m) ==
    emails[CHOOSE i \in 1..Len(emails) :
              /\ emails[i].message_id = m
              /\ \A j \in (i + 1)..Len(emails) : emails[j].message_id # m]

SameFields(row, e) == \A f \in Params : row[f] = e[f]

\* a commit of connection p's transaction goes through in this step
CommitStep(p) == pc[p] = "commit" /\ pc'[p] \notin {"commit", "failed"}

\* C2: in every reachable state of the store, under any interleaving of init_db,
\* upsert_emails and fetch_emails calls of two connections, no two rows of the
\* committed table, or of the table as an open transaction sees it, carry the same
\* message identifier. (A NULL message_id is not an identifier.) Application code
\* makes no check: the rows are what the INSERT ... ON CONFLICT statement leaves.
C2_OneRecordPerMessageId ==
    \A table \in Tables :
       \A i, j \in 1..Len(table) :
          (i # j /\ table[i].message_id # None) => table[i].message_id # table[j].message_id

\* C2 witness: a transaction has executed two records under one identifier, which
\* the committed table already holds, and sees a single row for it
C2_Witness ==
    \E p \in Procs :
       /\ pc[p] = "commit"
       /\ Len(batch[p]) = 2
       /\ batch[p][1].message_id = batch[p][2].message_id
       /\ batch[p][1].message_id # None
       /\ Cardinality(RowsOf(db, batch[p][1].message_id)) = 1
       /\ Cardinality(RowsOf(tx[p], batch[p][1].message_id)) = 1

\* C3: when an upsert_emails call commits, the table holds, for every identifier of
\* its batch, exactly one row, equal in all of sender, subject, body, received_at,
\* priority, sentiment, requirements, contacts, draft_reply and status to the last
\* record of the batch under that identifier (so of two successive calls the later
\* wins); every row that was there keeps its place and its identifier, rows under
\* other identifiers are unchanged, and each added row is a record of the batch.
C3_LastWriterWins ==
    [][\A p \in Procs :
          CommitStep(p) =>
             /\ Len(db') >= Len(db)
             /\ \A m \in BatchIds(batch[p]) :
                   /\ Cardinality(RowsOf(db', m)) = 1
                   /\ \A i \in RowsOf(db', m) : SameFields(db'[i], LastOf(batch[p], m))
             /\ \A i \in 1..Len(db) :
                   /\ db'[i].message_id = db[i].message_id
                   /\ db[i].message_id \notin BatchIds(batch[p]) => db'[i] = db[i]
             /\ \A i \in (Len(db) + 1)..Len(db') :
                   \E k \in 1..Len(batch[p]) : SameFields(db'[i], batch[p][k])]_vars

\* C3 witness: the committed table holds the first version of a record and a row
\* under another identifier; a transaction about to commit has overwritten every
\* field of the first with the second version and left the other row alone
C3_Witness ==
    \E p \in Procs :
       /\ pc[p] = "commit"
       /\ readers = {}
       /\ \E i, j \in 1..Len(db) :
             /\ SameFields(db[i], Rec(<<"m1">>, 1))
             /\ SameFields(tx[p][i], Rec(<<"m1">>, 2))
             /\ i # j
             /\ tx[p][j] = db[j]

\* every row of a table is, field for field, one submitted record
RowsWhole(table) ==
    \A i \in 1..Len(table) :
       \E e \in {r \in StoreRecords : Bindable(r)} : SameFields(table[i], e)

\* C10: with two connections calling upsert_emails concurrently on records of one
\* identifier, every row of the committed table and of what a running fetch_emails
\* returns has all its fields from one submitted record; the committed table changes
\* only when a call commits, and then by the whole of that call's batch applied in
\* order to the table as committed before; a call that fails changes nothing.
C10_SerialisedPerBatch ==
    /\ [](RowsWhole(db) /\ (readers # {} => RowsWhole(Visible)))
    /\ [][db' # db =>
            \E p \in Procs :
               /\ CommitStep(p)
               /\ AllBindable(batch[p])
               /\ db' = ExecuteMany(db, batch[p])]_vars
    /\ [][\A p \in Procs : (pc[p] = "failed" /\ pc'[p] = "idle") => db' = db]_vars

\* C10 witness: one connection holds the write lock with the second version of a
\* record executed in its transaction, while the other connection, whose batch
\* carries the first version of the same record, has been refused the lock; the
\* committed table still holds the first version
C10_Witness ==
    \E p, q \in Procs :
       /\ p # q
       /\ lock = p
       /\ pc[p] = "commit"
       /\ \E i \in 1..Len(tx[p]) : SameFields(tx[p][i], Rec(<<"m1">>, 2))
       /\ pc[q] = "failed"
       /\ \E k \in 1..Len(batch[q]) : batch[q][k] = Rec(<<"m1">>, 1)
       /\ \E i \in 1..Len(db) : SameFields(db[i], Rec(<<"m1">>, 1))

\* ----------------------------------------------------- retrieval properties
\* the place of a file in the directory's enumeration
Pos(name) == CHOOSE j \in 1..Len(kb.files) : kb.files[j].name = name

\* the number of distinct lowercase word tokens a query and a document share
Shared(query, text) == Cardinality(SeqRange(Tokenize(query)) \cap SeqRange(Tokenize(text)))

SameTier(r1, r2) == (r1.priority = Urgent) <=> (r2.priority = Urgent)

\* a sequence of records has no record of another priority before an Urgent one,
\* and within a tier the parseable received timestamps do not increase
UrgentFirstNewestFirst(rows) ==
    \A i, j \in 1..Len(rows) :
       i < j =>
          /\ ~(rows[i].priority # Urgent /\ rows[j].priority = Urgent)
          /\ (SameTier(rows[i], rows[j])
              /\ FromIsoOk(rows[i].received_at) /\ FromIsoOk(rows[j].received_at))
             => Timestamp(rows[i].received_at) >= Timestamp(rows[j].received_at)

\* C1: a dashboard request that ingests the same batch of raw emails as the request
\* before it, the oracle answering as before, in the same process or after a
\* restart, leaves the store as the first left it: the same rows with the same
\* values in every field.
C1_IdempotentIngest ==
    [][(runs >= 1 /\ runs' = runs + 1
        /\ last'.raw = last.raw /\ last'.outcome = last.outcome) => db' = db]_vars

\* C4: for every reachable store and every limit, fetch_emails(order_by_priority=True,
\* limit) returns no record of another priority before an Urgent one, and within
\* a priority tier received timestamps that do not increase.
C4_FetchOrdering ==
    \A limit \in Limits : UrgentFirstNewestFirst(FetchEmails(db, TRUE, limit))

\* C5: the batch ingest_latest hands to upsert_emails has every Urgent record before
\* every other one, within a tier the records with a parseable received timestamp
\* newest first, and every record whose timestamp cannot be parsed after all
\* records of its tier whose timestamp parsed, those before the epoch included.
C5_BatchSortRule ==
    /\ UrgentFirstNewestFirst(last.batch)
    /\ \A i, j \in 1..Len(last.batch) :
          (i < j /\ SameTier(last.batch[i], last.batch[j]))
             => ~(~FromIsoOk(last.batch[i].received_at) /\ FromIsoOk(last.batch[j].received_at))

\* C7: a request whose raw emails lack, or carry as null, any of sender, subject,
\* body, received timestamp and message identifier does not raise (the oracle not
\* failing it), and stores for each email a record under its identifier, in which
\* subject and body are strings, sender is a string, and the received timestamp is
\* a parseable time: the one given, or the current time when none parseable is given.
C7_PermissiveInput ==
    (runs >= 1 /\ last.outcome # OracleObject) =>
       /\ ~last.raised
       /\ Len(last.batch) = Len(last.raw)
       /\ \A i \in 1..Len(last.ids) : RowsOf(db, last.ids[i]) # {}
       /\ \A i \in 1..Len(last.batch) :
             /\ last.batch[i].subject # None
             /\ last.batch[i].body # None
             /\ last.batch[i].sender # None
             /\ FromIsoOk(last.batch[i].received_at)

\* C8: the identifiers normalisation assigns are not null, and a request that
\* ingests the same raw emails as the request before it, in the same process or
\* after a restart, assigns each email the same identifier.
C8_StableDerivedId ==
    /\ [](\A i \in 1..Len(last.ids) : last.ids[i] # None)
    /\ [][(runs >= 1 /\ runs' = runs + 1 /\ last'.raw = last.raw)
             => last'.ids = last.ids]_vars

\* ------------------------------------------------------- oracle properties
\* the outcomes in which the oracle gives no JSON object
Degraded == Outcomes \ {OracleText(JsonUrgent), OracleText(JsonHigh), OracleText(JsonNull)}

\* C6: when the oracle raises, returns nothing, an empty text, a text with no
\* parseable JSON object, JSON that is not an object, or a value that is not a
\* text, analyze_email returns the heuristic analysis and generate_response, for an
\* email whose sender is a string, returns without raising the fallback template
\* draft, which is not empty.
C6_OracleDegradation ==
    /\ (call.fn = "analyze_email" /\ call.outcome \in Degraded) =>
          /\ ~ret.raised
          /\ ret.val = Heuristic(call.email_obj)
    /\ (call.fn = "generate_response" /\ call.outcome \in Degraded
        /\ call.email_obj.sender # None) =>
          /\ ~ret.raised
          /\ ret.val # <<>>
          /\ ret.val = FallbackDraft(call.email_obj.sender, call.analysis)

\* the four fields of an analysis
AnalysisFields == {"priority", "sentiment", "requirements", "contacts"}

\* C11: every analysis analyze_email returns, with GEMINI_API_KEY set or not and
\* whatever the oracle answers, has its sentiment in {Positive, Negative, Neutral}
\* and its priority in {Urgent, Not urgent}; and when the oracle's text holds a JSON
\* object that parses, each of the four fields is the oracle's value when that is
\* present and truthy, and the heuristic value otherwise.
C11_AnalysisDomain ==
    call.fn = "analyze_email" =>
       /\ ~ret.raised
       /\ ret.val.sentiment \in {Positive, Negative, Neutral}
       /\ ret.val.priority \in {Urgent, NotUrgent}
       /\ (api_key /\ call.outcome.kind = "text" /\ call.outcome.text # <<>>) =>
             LET parsed == JsonLoads(JsonSubstring(call.outcome.text))
             IN (parsed.ok /\ parsed.isdict) =>
                   \A f \in AnalysisFields :
                      ret.val[f] = IF Truthy(DictGet(parsed.items, <<f>>))
                                   THEN DictGet(parsed.items, <<f>>)
                                   ELSE Heuristic(call.email_obj)[f]

====
